---- MODULE Spec2Model ----
(***************************************************************************)
(* Model of image-convert's BMP encoder, src/format_bmp.rs: the function   *)
(* to_bmp, one action per statement of its body, called repeatedly by a    *)
(* caller that owns one output ImageResource (Path, Data or MagickWand).   *)
(* The imaging engine (magick_rust) is an external collaborator: each of   *)
(* its calls either succeeds or reports an error.                          *)
(***************************************************************************)
EXTENDS Integers, Sequences, FiniteSets

VARIABLES
    pc,        \* position inside to_bmp, or "idle" / "returned"
    calls,     \* number of to_bmp calls started so far
    input,     \* the input ImageResource of the current call
    config,    \* the BMPConfig of the current call
    output,    \* the variant of the caller's output ImageResource
    b,         \* payload of ImageResource::Data
    mw_2,      \* payload of ImageResource::MagickWand
    mw,        \* local: the wand returned by fetch_magic_wand
    vector,    \* local: the classification returned by fetch_magic_wand
    pw,        \* local: the PixelWand of the background block
    resolved,  \* local: (width, height, sharpen) of compute_output_size_sharpen
    temp,      \* local: the blob returned by write_image_blob
    live,      \* ids of the engine wands that are allocated and not destroyed
    result,    \* the value to_bmp returned
    trace,     \* the engine calls issued by the current call, in order
    b0,        \* b at the start of the current call
    slot0      \* mw_2 at the start of the current call

vars == <<pc, calls, input, config, output, b, mw_2, mw, vector, pw, resolved,
          temp, live, result, trace, b0, slot0>>

----------------------------------------------------------------------------
(* Bounds *)

MaxCalls == 2
MaxDim == 2

----------------------------------------------------------------------------
(* Values *)

None == "None"
Ok == "Ok"
LoadError == "LoadError"
ColorError == "ColorError"
EngineError == "EngineError"
ExtensionMismatchError == "The file extension name is not bmp."

Max(x, y) == IF x >= y THEN x ELSE y

\* BMPConfig: width and height are 0 (source size) or a size; sharpen is
\* negative (auto) or an amount.
ConfigSizes == {0, 1, MaxDim + 1}
Sharpens == {-1, 0}
BMPConfig == [width : ConfigSizes, height : ConfigSizes, shrink_only : BOOLEAN,
              sharpen : Sharpens, background_color : {None, "White"}]

\* An input resource: what the engine finds in it when it decodes it, an
\* image of some size (here no taller than wide), vector or raster, or
\* nothing it can decode.
Inputs == {i \in [decodable : {TRUE}, vector : BOOLEAN, w : 1..MaxDim, h : 1..MaxDim] :
               i.h <= i.w}
          \cup {[decodable |-> FALSE, vector |-> FALSE, w |-> 1, h |-> 1]}

\* Paths, as sequences of characters.
Paths == { <<"a", ".", "b", "m", "p">>,
           <<"A", ".", "B", "m", "P">>,
           <<"a", ".", "p", "n", "g">>,
           <<"b", "m", "p">>,
           <<".", "b", "m", "p", "x">> }

BmpSuffix == <<".", "b", "m", "p">>

\* The blobs the engine's BMP coder may return.
Blobs == { <<66, 77>>, <<66, 77, 0>> }

\* An engine wand: the image it holds and the settings made on it.
Wand(id, w, h) == [id |-> id, w |-> w, h |-> h, background |-> None,
                   alpha |-> TRUE, sharpened |-> -1, profiles |-> TRUE,
                   quality |-> 0, interlace |-> "Undefined", format |-> "SRC"]

NoWand == Wand(-1, 0, 0)

EngineCall(op, ok, x, y) == [op |-> op, ok |-> ok, x |-> x, y |-> y]

----------------------------------------------------------------------------
(* Collaborators *)

\* u8::to_ascii_lowercase on the characters of Paths
ToAsciiLowercase(c) ==
    CASE c = "A" -> "a"
      [] c = "B" -> "b"
      [] c = "M" -> "m"
      [] c = "P" -> "p"
      [] OTHER -> c

\* EndsWithCaseless::ends_with_caseless_ascii: the last Len(s) characters of
\* p equal s, ignoring ASCII case.
ends_with_caseless_ascii(p, s) ==
    /\ Len(p) >= Len(s)
    /\ \A i \in 1..Len(s) :
           ToAsciiLowercase(p[Len(p) - Len(s) + i]) = ToAsciiLowercase(s[i])

\* compute_output_size_sharpen: the Resolver.
compute_output_size_sharpen(sw, sh, c) ==
    LET tw == IF c.width = 0
              THEN (IF c.height = 0 THEN sw ELSE Max(1, (sw * c.height) \div sh))
              ELSE c.width
        th == IF c.height = 0
              THEN (IF c.width = 0 THEN sh ELSE Max(1, (sh * c.width) \div sw))
              ELSE c.height
        keep == c.shrink_only /\ tw >= sw /\ th >= sh
        fw == IF keep THEN sw ELSE tw
        fh == IF keep THEN sh ELSE th
        ratio == Max(sw \div fw, sh \div fh)
        sharpen == IF c.sharpen >= 0 THEN c.sharpen ELSE Max(0, ratio - 1)
    IN  <<fw, fh, sharpen>>

----------------------------------------------------------------------------
(* to_bmp *)

\* Mutant of Return: the wand is leaked on the error paths.
Return_LeakOnError(r, moved, dropped) ==
    /\ result' = r
    /\ pc' = "returned"
    /\ live' = (live \ dropped) \ (IF moved \/ r # Ok THEN {} ELSE {mw.id})
    /\ pw' = IF pw = "live" THEN "dropped" ELSE pw

\* Leaving to_bmp: the locals go out of scope, so the wand still owned by
\* mw is destroyed (moved == FALSE), and so is a PixelWand still in scope.
Return(r, moved, dropped) ==
    /\ result' = r
    /\ pc' = "returned"
    /\ live' = (live \ dropped) \ (IF moved THEN {} ELSE {mw.id})
    /\ pw' = IF pw = "live" THEN "dropped" ELSE pw

\* An engine call followed by `?` that reported an error.
FailWith(e, r) ==
    /\ trace' = Append(trace, e)
    /\ Return(r, FALSE, {})

Fail(op, r) == FailWith(EngineCall(op, FALSE, 0, 0), r)

\* The caller calls to_bmp(output, input, config) with the next input.
Call ==
    /\ pc \in {"idle", "returned"}
    /\ calls < MaxCalls
    /\ calls' = calls + 1
    /\ input' \in Inputs
    /\ pc' = "fetch_magic_wand"
    /\ mw' = NoWand
    /\ vector' = FALSE
    /\ pw' = "none"
    /\ resolved' = <<0, 0, 0>>
    /\ temp' = <<>>
    /\ result' = None
    /\ trace' = <<>>
    /\ b0' = b
    /\ slot0' = mw_2
    /\ UNCHANGED <<config, output, b, mw_2, live>>

\* Mutants of AfterBackground: the raster block entered for vector input
\* too; the vector branch resuming one statement too late.
AfterBackground_IgnoreVector(v) == "compute_output_size_sharpen"

AfterBackground_VectorSkipsProfile(v) ==
    IF v THEN "set_image_compression_quality" ELSE "compute_output_size_sharpen"

\* line 83: the position after the background block
AfterBackground(v) == IF v THEN "profile_image" ELSE "compute_output_size_sharpen"

\* Mutant of AfterLoad: the background block entered without a colour.
AfterLoad_AlwaysBackground(c, v) == "set_color"

\* line 76: the position after fetch_magic_wand
AfterLoad(c, v) ==
    IF c.background_color # None THEN "set_color" ELSE AfterBackground(v)

\* line 74
FetchMagicWand ==
    /\ pc = "fetch_magic_wand"
    /\ \/ /\ ~input.decodable
          /\ trace' = Append(trace, EngineCall("fetch_magic_wand", FALSE, 0, 0))
          /\ result' = LoadError
          /\ pc' = "returned"
          /\ UNCHANGED <<mw, vector, live>>
       \/ /\ input.decodable
          /\ mw' = Wand(calls, input.w, input.h)
          /\ vector' = input.vector
          /\ live' = live \cup {calls}
          /\ trace' = Append(trace, EngineCall("fetch_magic_wand", TRUE, 0, 0))
          /\ pc' = AfterLoad(config, input.vector)
          /\ UNCHANGED result
    /\ UNCHANGED <<calls, input, config, output, b, mw_2, pw, resolved, temp,
                   b0, slot0>>

\* lines 77-78
SetColor ==
    /\ pc = "set_color"
    /\ \/ /\ trace' = Append(trace, EngineCall("set_color", TRUE, 0, 0))
          /\ pw' = "live"
          /\ pc' = "set_image_background_color"
          /\ UNCHANGED <<live, result>>
       \/ /\ trace' = Append(trace, EngineCall("set_color", FALSE, 0, 0))
          /\ result' = ColorError
          /\ pc' = "returned"
          /\ live' = live \ {mw.id}
          /\ pw' = "dropped"
    /\ UNCHANGED <<calls, input, config, output, b, mw_2, mw, vector, resolved,
                   temp, b0, slot0>>

\* line 79
SetImageBackgroundColor ==
    /\ pc = "set_image_background_color"
    /\ \/ /\ trace' = Append(trace, EngineCall("set_image_background_color", TRUE, 0, 0))
          /\ mw' = [mw EXCEPT !.background = config.background_color]
          /\ pc' = "set_image_alpha_channel"
          /\ UNCHANGED <<live, result, pw>>
       \/ /\ Fail("set_image_background_color", EngineError)
          /\ UNCHANGED mw
    /\ UNCHANGED <<calls, input, config, output, b, mw_2, vector, resolved,
                   temp, b0, slot0>>

\* lines 80-81
SetImageAlphaChannel ==
    /\ pc = "set_image_alpha_channel"
    /\ \/ /\ trace' = Append(trace, EngineCall("set_image_alpha_channel", TRUE, 0, 0))
          /\ mw' = [mw EXCEPT !.alpha = FALSE]
          /\ pw' = "dropped"
          /\ pc' = AfterBackground(vector)
          /\ UNCHANGED <<live, result>>
       \/ /\ Fail("set_image_alpha_channel", EngineError)
          /\ UNCHANGED mw
    /\ UNCHANGED <<calls, input, config, output, b, mw_2, vector, resolved,
                   temp, b0, slot0>>

\* line 84
ComputeOutputSizeSharpen ==
    /\ pc = "compute_output_size_sharpen"
    /\ resolved' = compute_output_size_sharpen(mw.w, mw.h, config)
    /\ trace' = Append(trace, EngineCall("compute_output_size_sharpen", TRUE, 0, 0))
    /\ pc' = "resize_image"
    /\ UNCHANGED <<calls, input, config, output, b, mw_2, mw, vector, pw, temp,
                   live, result, b0, slot0>>

\* line 86: the statement has no `?`; what the engine reports is not looked at.
ResizeImage ==
    /\ pc = "resize_image"
    /\ \/ /\ trace' = Append(trace, EngineCall("resize_image", TRUE, resolved[1], resolved[2]))
          /\ mw' = [mw EXCEPT !.w = resolved[1], !.h = resolved[2]]
       \/ /\ trace' = Append(trace, EngineCall("resize_image", FALSE, resolved[1], resolved[2]))
          /\ UNCHANGED mw
    /\ pc' = "sharpen_image"
    /\ UNCHANGED <<calls, input, config, output, b, mw_2, vector, pw, resolved,
                   temp, live, result, b0, slot0>>

\* Mutant of SharpenImage: a sharpen amount of zero is skipped as a no-op.
SharpenImage_SkipZero ==
    /\ pc = "sharpen_image"
    /\ IF resolved[3] = 0
       THEN /\ pc' = "profile_image"
            /\ UNCHANGED <<trace, mw, live, result, pw>>
       ELSE \/ /\ trace' = Append(trace, EngineCall("sharpen_image", TRUE, resolved[3], 0))
               /\ mw' = [mw EXCEPT !.sharpened = resolved[3]]
               /\ pc' = "profile_image"
               /\ UNCHANGED <<live, result, pw>>
            \/ /\ FailWith(EngineCall("sharpen_image", FALSE, resolved[3], 0), EngineError)
               /\ UNCHANGED mw
    /\ UNCHANGED <<calls, input, config, output, b, mw_2, vector, resolved,
                   temp, b0, slot0>>

\* line 88
SharpenImage ==
    /\ pc = "sharpen_image"
    /\ \/ /\ trace' = Append(trace, EngineCall("sharpen_image", TRUE, resolved[3], 0))
          /\ mw' = [mw EXCEPT !.sharpened = resolved[3]]
          /\ pc' = "profile_image"
          /\ UNCHANGED <<live, result, pw>>
       \/ /\ FailWith(EngineCall("sharpen_image", FALSE, resolved[3], 0), EngineError)
          /\ UNCHANGED mw
    /\ UNCHANGED <<calls, input, config, output, b, mw_2, vector, resolved,
                   temp, b0, slot0>>

\* line 91
ProfileImage ==
    /\ pc = "profile_image"
    /\ \/ /\ trace' = Append(trace, EngineCall("profile_image", TRUE, 0, 0))
          /\ mw' = [mw EXCEPT !.profiles = FALSE]
          /\ pc' = "set_image_compression_quality"
          /\ UNCHANGED <<live, result, pw>>
       \/ /\ Fail("profile_image", EngineError)
          /\ UNCHANGED mw
    /\ UNCHANGED <<calls, input, config, output, b, mw_2, vector, resolved,
                   temp, b0, slot0>>

\* line 93
SetImageCompressionQuality ==
    /\ pc = "set_image_compression_quality"
    /\ \/ /\ trace' = Append(trace, EngineCall("set_image_compression_quality", TRUE, 100, 0))
          /\ mw' = [mw EXCEPT !.quality = 100]
          /\ pc' = "set_interlace_scheme"
          /\ UNCHANGED <<live, result, pw>>
       \/ /\ FailWith(EngineCall("set_image_compression_quality", FALSE, 100, 0), EngineError)
          /\ UNCHANGED mw
    /\ UNCHANGED <<calls, input, config, output, b, mw_2, vector, resolved,
                   temp, b0, slot0>>

\* line 95
SetInterlaceScheme ==
    /\ pc = "set_interlace_scheme"
    /\ \/ /\ trace' = Append(trace, EngineCall("set_interlace_scheme", TRUE, 0, 0))
          /\ mw' = [mw EXCEPT !.interlace = "LineInterlace"]
          /\ pc' = "set_image_format"
          /\ UNCHANGED <<live, result, pw>>
       \/ /\ Fail("set_interlace_scheme", EngineError)
          /\ UNCHANGED mw
    /\ UNCHANGED <<calls, input, config, output, b, mw_2, vector, resolved,
                   temp, b0, slot0>>

\* line 97
SetImageFormat ==
    /\ pc = "set_image_format"
    /\ \/ /\ trace' = Append(trace, EngineCall("set_image_format", TRUE, 0, 0))
          /\ mw' = [mw EXCEPT !.format = "BMP"]
          /\ pc' = "match_output"
          /\ UNCHANGED <<live, result, pw>>
       \/ /\ Fail("set_image_format", EngineError)
          /\ UNCHANGED mw
    /\ UNCHANGED <<calls, input, config, output, b, mw_2, vector, resolved,
                   temp, b0, slot0>>

\* Mutant of DispatchPath: the extension is checked after the write.
DispatchPath_WriteFirst ==
    /\ pc = "match_output"
    /\ output.kind = "Path"
    /\ \/ /\ trace' = Append(trace, EngineCall("write_image", TRUE, 0, 0))
          /\ IF ~ends_with_caseless_ascii(output.p, BmpSuffix)
             THEN Return(ExtensionMismatchError, FALSE, {})
             ELSE Return(Ok, FALSE, {})
       \/ Fail("write_image", EngineError)
    /\ UNCHANGED <<calls, input, config, output, b, mw_2, mw, vector, resolved,
                   temp, b0, slot0>>

\* lines 100-106
DispatchPath ==
    /\ pc = "match_output"
    /\ output.kind = "Path"
    /\ IF ~ends_with_caseless_ascii(output.p, BmpSuffix)
       THEN /\ Return(ExtensionMismatchError, FALSE, {})
            /\ UNCHANGED trace
       ELSE \/ /\ trace' = Append(trace, EngineCall("write_image", TRUE, 0, 0))
               /\ Return(Ok, FALSE, {})
            \/ Fail("write_image", EngineError)
    /\ UNCHANGED <<calls, input, config, output, b, mw_2, mw, vector, resolved,
                   temp, b0, slot0>>

\* Mutant of DispatchData: the blob replaces the buffer's contents.
DispatchData_Replace ==
    /\ pc = "match_output"
    /\ output.kind = "Data"
    /\ \/ /\ temp' \in Blobs
          /\ trace' = Append(trace, EngineCall("write_image_blob", TRUE, 0, 0))
          /\ b' = temp'
          /\ Return(Ok, FALSE, {})
       \/ /\ Fail("write_image_blob", EngineError)
          /\ UNCHANGED <<b, temp>>
    /\ UNCHANGED <<calls, input, config, output, mw_2, mw, vector, resolved,
                   b0, slot0>>

\* Mutant of DispatchData: bytes reach the buffer although the engine
\* reported an error.
DispatchData_AppendOnError ==
    /\ pc = "match_output"
    /\ output.kind = "Data"
    /\ temp' \in Blobs
    /\ b' = b \o temp'
    /\ \/ /\ trace' = Append(trace, EngineCall("write_image_blob", TRUE, 0, 0))
          /\ Return(Ok, FALSE, {})
       \/ Fail("write_image_blob", EngineError)
    /\ UNCHANGED <<calls, input, config, output, mw_2, mw, vector, resolved,
                   b0, slot0>>

\* lines 107-110
DispatchData ==
    /\ pc = "match_output"
    /\ output.kind = "Data"
    /\ \/ /\ temp' \in Blobs
          /\ trace' = Append(trace, EngineCall("write_image_blob", TRUE, 0, 0))
          /\ b' = b \o temp'
          /\ Return(Ok, FALSE, {})
       \/ /\ Fail("write_image_blob", EngineError)
          /\ UNCHANGED <<b, temp>>
    /\ UNCHANGED <<calls, input, config, output, mw_2, mw, vector, resolved,
                   b0, slot0>>

\* Mutant of DispatchMagickWand: the slot keeps its wand.
DispatchMagickWand_Keep ==
    /\ pc = "match_output"
    /\ output.kind = "MagickWand"
    /\ Return(Ok, FALSE, {})
    /\ UNCHANGED <<calls, input, config, output, b, mw_2, mw, vector, resolved,
                   temp, trace, b0, slot0>>

\* lines 111-113: the assignment destroys the wand the slot held and moves
\* mw into the slot.
DispatchMagickWand ==
    /\ pc = "match_output"
    /\ output.kind = "MagickWand"
    /\ mw_2' = mw
    /\ Return(Ok, TRUE, {mw_2.id})
    /\ UNCHANGED <<calls, input, config, output, b, mw, vector, resolved, temp,
                   trace, b0, slot0>>

----------------------------------------------------------------------------
(* Specification *)

\* The caller's configuration and its output resource: a path, a buffer
\* that may already hold bytes, or a wand.
Init ==
    /\ pc = "idle"
    /\ calls = 0
    /\ input = [decodable |-> FALSE, vector |-> FALSE, w |-> 1, h |-> 1]
    /\ config \in BMPConfig
    /\ \/ /\ output \in [kind : {"Path"}, p : Paths]
          /\ b = <<>>
          /\ mw_2 = NoWand
          /\ live = {}
       \/ /\ output = [kind |-> "Data", p |-> <<>>]
          /\ b \in {<<>>, <<7>>}
          /\ mw_2 = NoWand
          /\ live = {}
       \/ /\ output = [kind |-> "MagickWand", p |-> <<>>]
          /\ b = <<>>
          /\ mw_2 = Wand(0, 0, 0)
          /\ live = {0}
    /\ mw = NoWand
    /\ vector = FALSE
    /\ pw = "none"
    /\ resolved = <<0, 0, 0>>
    /\ temp = <<>>
    /\ result = None
    /\ trace = <<>>
    /\ b0 = b
    /\ slot0 = mw_2

Next ==
    \/ Call
    \/ FetchMagicWand
    \/ SetColor
    \/ SetImageBackgroundColor
    \/ SetImageAlphaChannel
    \/ ComputeOutputSizeSharpen
    \/ ResizeImage
    \/ SharpenImage
    \/ ProfileImage
    \/ SetImageCompressionQuality
    \/ SetInterlaceScheme
    \/ SetImageFormat
    \/ DispatchPath
    \/ DispatchData
    \/ DispatchMagickWand

Spec == Init /\ [][Next]_vars

----------------------------------------------------------------------------
(* Reading the record of engine calls *)

Positions == 1..Len(trace)
Issued(op) == \E i \in Positions : trace[i].op = op
Succeeded(op) == \E i \in Positions : trace[i].op = op /\ trace[i].ok
Count(op) == Cardinality({i \in Positions : trace[i].op = op})
Only(ops) == SelectSeq(trace, LAMBDA e : e.op \in ops)

BackgroundOps == {"set_color", "set_image_background_color", "set_image_alpha_channel"}
RasterOps == {"compute_output_size_sharpen", "resize_image", "sharpen_image"}
FinishOps == {"profile_image", "set_image_compression_quality",
              "set_interlace_scheme", "set_image_format"}
WriteOps == {"write_image", "write_image_blob"}

\* The step of the pipeline (section 4.3 of the specification) an engine
\* call belongs to, refined by its place inside the step.
Rank(op) ==
    CASE op = "fetch_magic_wand" -> 1
      [] op = "set_color" -> 2
      [] op = "set_image_background_color" -> 3
      [] op = "set_image_alpha_channel" -> 4
      [] op = "compute_output_size_sharpen" -> 5
      [] op = "resize_image" -> 6
      [] op = "sharpen_image" -> 7
      [] op = "profile_image" -> 8
      [] op = "set_image_compression_quality" -> 9
      [] op = "set_interlace_scheme" -> 10
      [] op = "set_image_format" -> 11
      [] OTHER -> 12

Returned == pc = "returned"
Loaded == Succeeded("fetch_magic_wand")
Finished == \A op \in FinishOps : Succeeded(op)
\* the call got as far as the output dispatch
Dispatched == pc = "match_output" \/ (Returned /\ Succeeded("set_image_format"))

\* p, lower-cased, is some prefix followed by ".bmp"
LowerCased(p) == [i \in 1..Len(p) |-> ToAsciiLowercase(p[i])]
HasBmpExtension(p) ==
    \E k \in 0..Len(p) : SubSeq(LowerCased(p), k + 1, Len(p)) = BmpSuffix

\* what the Resolver answers for the source the call loaded
Resolution == compute_output_size_sharpen(input.w, input.h, config)

----------------------------------------------------------------------------
(* Claims *)

\* C1: when the output is a Path that does not end, ignoring ASCII case, with
\* ".bmp", neither write_image nor write_image_blob is ever invoked, and a
\* call whose earlier steps all succeeded returns the extension-mismatch
\* error.
C1_MismatchedPathNeverWritten ==
    (output.kind = "Path" /\ ~HasBmpExtension(output.p)) =>
        /\ \A op \in WriteOps : ~Issued(op)
        /\ (Returned /\ Succeeded("set_image_format")) =>
               result = ExtensionMismatchError

C1_Witness ==
    /\ Returned
    /\ output.kind = "Path"
    /\ output.p = <<".", "b", "m", "p", "x">>
    /\ Succeeded("set_image_format")
    /\ result = ExtensionMismatchError

\* C2: the buffer only ever grows at its end, and a successful call with a
\* Data output leaves in it what it held before the call followed by exactly
\* the blob the engine encoded in that call; no other step changes it.
C2_BufferAppended ==
    /\ [](Returned /\ output.kind = "Data" /\ result = Ok =>
            /\ Succeeded("write_image_blob")
            /\ temp \in Blobs
            /\ b = b0 \o temp)
    /\ [][ /\ Len(b') >= Len(b)
           /\ SubSeq(b', 1, Len(b)) = b
           /\ IF pc = "match_output" /\ output.kind = "Data" /\ result' = Ok
              THEN b' = b \o temp'
              ELSE b' = b ]_vars

\* a second successful call on a buffer that already holds the first blob
C2_Witness ==
    /\ Returned
    /\ output.kind = "Data"
    /\ result = Ok
    /\ calls = 2
    /\ \E first \in Blobs : b0 = <<7>> \o first
    /\ b = b0 \o temp
    /\ Len(b) > Len(b0)

\* C3: for input the loader classifies as vector, whatever the
\* configuration, the Resolver, resize and sharpen are never invoked, and at
\* the dispatch the wand has the dimensions of the source.
C3_VectorBypassesResize ==
    (Loaded /\ input.vector) =>
        /\ vector
        /\ \A op \in RasterOps : ~Issued(op)
        /\ Dispatched => (mw.w = input.w /\ mw.h = input.h /\ mw.sharpened = -1)

C3_Witness ==
    /\ Returned
    /\ result = Ok
    /\ input.vector
    /\ input.w = 2
    /\ config.width = 1
    /\ config.sharpen = 0
    /\ ~config.shrink_only
    /\ mw.w = 2

\* C4: an engine call that fails is the last call of the pipeline, and
\* to_bmp returns an error.
C4_EveryFailurePropagated ==
    \A i \in Positions :
        ~trace[i].ok => (i = Len(trace) /\ Returned /\ result \notin {Ok, None})

\* the output actions the current call has performed
OutputActions ==
    Count("write_image") + (IF b # b0 THEN 1 ELSE 0) + (IF mw_2 # slot0 THEN 1 ELSE 0)

\* C5, as stated: a call that returns an error left the buffer and the slot
\* as they were and issued no write to the path; a call that returns Ok
\* performed exactly one output action.
C5_NoPartialSuccess ==
    Returned =>
        /\ result # Ok => (b = b0 /\ mw_2 = slot0 /\ ~Issued("write_image"))
        /\ result = Ok => OutputActions = 1

\* C5, amended: a call that returns an error left the buffer and the slot
\* as they were, and the only write to the path it can have issued is the
\* write_image call whose failure it returns; a call that returns Ok
\* performed exactly one output action, the one of its output's kind.
C5_NoPartialSuccessButFailedWrite ==
    Returned =>
        /\ result # Ok =>
               /\ b = b0
               /\ mw_2 = slot0
               /\ ~Succeeded("write_image")
               /\ Issued("write_image") =>
                      /\ Count("write_image") = 1
                      /\ trace[Len(trace)].op = "write_image"
                      /\ result = EngineError
                      /\ HasBmpExtension(output.p)
        /\ result = Ok =>
               /\ OutputActions = 1
               /\ output.kind = "Path" => Succeeded("write_image")
               /\ output.kind = "Data" => b # b0
               /\ output.kind = "MagickWand" => mw_2 # slot0

C5_Witness ==
    /\ Returned
    /\ output.kind = "Data"
    /\ result = EngineError
    /\ Issued("write_image_blob")
    /\ b = <<7>>

\* C6, as stated: when to_bmp returns, the wand it loaded and the colour
\* object it created are destroyed, on every path.
C6_EverythingReleased ==
    Returned => (calls \notin live /\ pw # "live")

\* C6, amended: when to_bmp returns, the colour object is destroyed, and the
\* wand it loaded is destroyed unless the call succeeded with a MagickWand
\* output: then the caller's slot owns it and the wand the slot held before
\* is destroyed instead.
C6_ReleasedOrHandedOver ==
    Returned =>
        /\ pw # "live"
        /\ calls \in live <=>
               (result = Ok /\ output.kind = "MagickWand" /\ mw_2.id = calls)
        /\ calls \in live => slot0.id \notin live
        /\ live = IF output.kind = "MagickWand" THEN {mw_2.id} ELSE {}

C6_Witness ==
    /\ Returned
    /\ result = EngineError
    /\ Issued("sharpen_image")
    /\ pw = "dropped"
    /\ mw.id = calls
    /\ calls \notin live

\* the wand the statements of to_bmp make of the loaded image
ProcessedWand ==
    LET raster == ~input.vector
        resized == raster /\ Succeeded("resize_image")
    IN  [id |-> calls,
         w |-> IF resized THEN Resolution[1] ELSE input.w,
         h |-> IF resized THEN Resolution[2] ELSE input.h,
         background |-> config.background_color,
         alpha |-> (config.background_color = None),
         sharpened |-> IF raster THEN Resolution[3] ELSE -1,
         profiles |-> FALSE,
         quality |-> 100,
         interlace |-> "LineInterlace",
         format |-> "BMP"]

C8_PipelineOrder ==
    /\ \A i \in Positions :
           i < Len(trace) => Rank(trace[i].op) < Rank(trace[i + 1].op)
    /\ trace # <<>> => trace[1].op = "fetch_magic_wand"
    /\ (pc = "match_output" \/ \E op \in WriteOps : Issued(op)) => Finished
    /\ (Returned /\ result \in {Ok, ExtensionMismatchError}) => Finished
    /\ Finished => (mw.profiles = FALSE /\ mw.quality = 100
                    /\ mw.interlace = "LineInterlace" /\ mw.format = "BMP")

C8_Witness ==
    /\ Returned
    /\ result = Ok
    /\ [i \in Positions |-> trace[i].op] =
           <<"fetch_magic_wand", "set_color", "set_image_background_color",
             "set_image_alpha_channel", "compute_output_size_sharpen",
             "resize_image", "sharpen_image", "profile_image",
             "set_image_compression_quality", "set_interlace_scheme",
             "set_image_format", "write_image">>

\* the call has left the raster block, or returned without a background error
PastSharpen ==
    \/ pc \in {"profile_image", "set_image_compression_quality",
               "set_interlace_scheme", "set_image_format", "match_output"}
    \/ (Returned /\ \A i \in Positions : trace[i].op \in BackgroundOps => trace[i].ok)

\* C9: for raster input whose load and background steps succeeded, once the
\* call is past the sharpen statement the Resolver was invoked exactly once,
\* then resize exactly once with the Resolver's width and height, then
\* sharpen exactly once with the Resolver's amount, whatever that amount is
\* and whether or not the size changes.
C9_RasterResizedAndSharpenedOnce ==
    (Loaded /\ ~input.vector /\ PastSharpen) =>
        LET r == Only(RasterOps)
        IN  /\ Len(r) = 3
            /\ r[1].op = "compute_output_size_sharpen"
            /\ r[2].op = "resize_image"
            /\ <<r[2].x, r[2].y>> = <<Resolution[1], Resolution[2]>>
            /\ r[3].op = "sharpen_image"
            /\ r[3].x = Resolution[3]
            /\ resolved = Resolution

\* sharpen amount zero and a size equal to the source's
C9_Witness ==
    /\ Returned
    /\ result = Ok
    /\ Loaded
    /\ ~input.vector
    /\ Resolution = <<input.w, input.h, 0>>
    /\ \E i \in Positions :
           trace[i] = EngineCall("sharpen_image", TRUE, 0, 0)

\* C10: without a background colour none of set_color,
\* set_image_background_color, set_image_alpha_channel is issued; with one
\* they are issued in this order right after the load and before anything
\* else, and all three have succeeded before any later step; a colour that
\* cannot be resolved ends the call with an error, the wand as loaded and
\* no output touched.
C10_BackgroundIffConfigured ==
    /\ config.background_color = None => Only(BackgroundOps) = <<>>
    /\ (config.background_color # None /\ Len(trace) >= 2) =>
           trace[2].op = "set_color"
    /\ (config.background_color # None
          /\ (Dispatched \/ \E i \in Positions : Rank(trace[i].op) >= 5)) =>
           /\ Len(trace) >= 4
           /\ [i \in 2..4 |-> trace[i]] =
                  [i \in 2..4 |-> EngineCall(CHOOSE op \in BackgroundOps : Rank(op) = i,
                                             TRUE, 0, 0)]
           /\ mw.background = config.background_color
           /\ ~mw.alpha
    /\ (\E i \in Positions : trace[i].op = "set_color" /\ ~trace[i].ok) =>
           /\ Returned
           /\ result = ColorError
           /\ Len(trace) = 2
           /\ mw = Wand(calls, input.w, input.h)
           /\ b = b0
           /\ mw_2 = slot0

C10_Witness ==
    /\ Returned
    /\ result = ColorError
    /\ config.background_color = "White"
    /\ Len(trace) = 2

====
